---- MODULE Spec2Model ----
(***************************************************************************)
(* A model of the CTA transit tracker (src/CTAmqtt.py): the ETA            *)
(* computation of the bus and rail clients, the MQTT manager with its      *)
(* lifecycle callbacks, and the update pass of CTATransitTracker.          *)
(*                                                                         *)
(* SpecEta explores calculate_etas over bounded prediction batches.        *)
(* Spec    explores run(): connect, update passes, callbacks, shutdown.    *)
(***************************************************************************)
EXTENDS Integers, Sequences, FiniteSets, TLC

VARIABLES
    \* ---- calculate_etas exploration (SpecEta) ----
    etaMode,        \* "BUS" | "RAIL": which client's calculate_etas is applied
    etaNow,         \* the value datetime.datetime.now() returns in the call
    etaInput,       \* the predictions argument
    etaDone,        \* calculate_etas has returned
    etaResult,      \* the list it returned
    \* ---- MQTTManager ----
    connected,      \* MQTTManager.connected
    session,        \* the paho client's socket/session: "idle" | "connecting" | "up" | "refused"
    loopRunning,    \* the client's network thread is running (loop_start .. loop_stop)
    lastCb,         \* the most recent lifecycle callback delivered, and what it did
    \* ---- CTATransitTracker.run / update_predictions ----
    pc,             \* position of the main thread
    phase,          \* "bus" | "dwtn" | "rail": the part of the pass being run
    idx,            \* index of the stop (or downtown route) being processed
    predictions,    \* local: the fetched document of the current stop
    etas,           \* local: calculate_etas(predictions) of the current stop
    downtown_etas,  \* local of _update_downtown_express
    memberEtas,     \* history: the first ETA of each downtown route, kept until the next stop's fetch
    pubArgs,        \* arguments of the publish call in progress
    lastPublish,    \* the most recent completed MQTTManager.publish call
    fetchLog,       \* fetches issued in the current pass, in order
    pubLog,         \* topics of the publish calls made in the current pass, in order
    errLog,         \* stops whose processing raised in the current pass, in order
    disconnectCalled, \* mqtt_manager.disconnect() has been performed
    slept,          \* the seconds the time.sleep of the loop was last called with; 0 once a pass starts
    \* ---- configuration and construction ----
    config,         \* the CONFIG dictionary handed to CTATransitTracker
    credentials     \* client.username_pw_set has been called

etaVars == <<etaMode, etaNow, etaInput, etaDone, etaResult>>
mqttVars == <<connected, session, loopRunning, lastCb>>
runVars == <<pc, phase, idx, predictions, etas, downtown_etas, memberEtas, pubArgs, lastPublish,
             fetchLog, pubLog, errLog, disconnectCalled, slept>>
cfgVars == <<config, credentials>>
vars == <<etaVars, mqttVars, runVars, cfgVars>>

-----------------------------------------------------------------------------
(* Bounds of the exploration *)

\* timestamps carry a day number in 0..MaxDay
MaxDay == 2
\* a prediction batch holds at most MaxRecords records
MaxRecords == 2
\* result codes of the lifecycle callbacks range over 0..MaxRc
MaxRc == 1
\* at most MaxErrors exceptions are raised inside the per-stop try blocks of one pass
MaxErrors == 1

-----------------------------------------------------------------------------
(* Time: datetime and timedelta *)

SecondsPerDay == 86400
MicrosPerSecond == 1000000

Max(a, b) == IF a >= b THEN a ELSE b

\* Python's None, for Optional[str] fields
None == "<None>"

\* A datetime is [day, sec, us]: the day number, the second of the day and the
\* microsecond.  The yyyyMMdd part of a timestamp text is carried as its day
\* number; the calendar itself is not modelled.
DateTime(day, sec, us) == [day |-> day, sec |-> sec, us |-> us]

\* datetime - datetime: a timedelta, normalised as Python does it, so that
\* 0 <= seconds < 86400 and 0 <= microseconds < 10^6 and the sign is carried
\* by days alone.
TimeDelta(t, now) ==
    LET dus == t.us - now.us
        s   == (t.sec - now.sec) + (dus \div MicrosPerSecond)
    IN  [days         |-> (t.day - now.day) + (s \div SecondsPerDay),
         seconds      |-> s % SecondsPerDay,
         microseconds |-> dus % MicrosPerSecond]

\* The number of fields of a timestamp text in each format, after the date:
\* '%Y%m%d %H:%M' has hour and minute, '%Y%m%d %H:%M:%S' also has the second.
BusFormat == <<"d", "H", "M">>
RailFormat == <<"d", "H", "M", "S">>

\* A timestamp text is the tuple of its numeric fields <<day, H, M>> or
\* <<day, H, M, S>>; <<>> stands for a record whose time element is missing
\* or empty.  strptime raises unless the text has exactly the format's fields,
\* each in range.
StrptimeOk(text, format) ==
    /\ Len(text) = Len(format)
    /\ text[1] >= 0
    /\ text[2] \in 0..23
    /\ text[3] \in 0..59
    /\ Len(format) = 4 => text[4] \in 0..59

strptime(text, format) ==
    DateTime(text[1],
             text[2] * 3600 + text[3] * 60 + (IF Len(format) = 4 THEN text[4] ELSE 0),
             0)

-----------------------------------------------------------------------------
(* CTABusClient.calculate_etas / CTARailClient.calculate_etas *)

\* A fetched document: NoDoc is get_predictions' None; otherwise the parsed
\* response, which has the record collection ('prd' / 'eta') or not.
NoDoc == [kind |-> "None", hasColl |-> FALSE, recs |-> <<>>]
Doc(hasColl, recs) == [kind |-> "doc", hasColl |-> hasColl, recs |-> recs]

\* eta_seconds = max(0, eta.seconds)
EtaSeconds(eta) == Max(0, eta.seconds)

\* the for loop over the records: a record that fails to parse is skipped
RECURSIVE EtaLoopMutAbort(_, _, _, _)
EtaLoopMutAbort(recs, format, current_time, eta_list) ==
    IF recs = <<>> \/ ~StrptimeOk(Head(recs), format) THEN eta_list
    ELSE EtaLoopMutAbort(Tail(recs), format, current_time,
             Append(eta_list, EtaSeconds(TimeDelta(strptime(Head(recs), format),
                                                   current_time))))

RECURSIVE EtaLoop(_, _, _, _)
EtaLoop(recs, format, current_time, eta_list) ==
    IF recs = <<>> THEN eta_list
    ELSE LET prediction == Head(recs) IN
         IF ~StrptimeOk(prediction, format)
         THEN EtaLoop(Tail(recs), format, current_time, eta_list)
         ELSE LET predicted_arrival == strptime(prediction, format)
                  eta == TimeDelta(predicted_arrival, current_time)
              IN  EtaLoop(Tail(recs), format, current_time,
                          Append(eta_list, EtaSeconds(eta)))

\* return eta_list if eta_list else [-1]
EtasOrSentinelMutEmpty(eta_list) == eta_list
EtasOrSentinel(eta_list) == IF eta_list # <<>> THEN eta_list ELSE <<-1>>

calculate_etas(preds, format, current_time) ==
    IF preds.kind = "None" \/ ~preds.hasColl
    THEN <<-1>>
    ELSE EtasOrSentinel(EtaLoop(preds.recs, format, current_time, <<>>))

CTABusClient_calculate_etas(preds, current_time) ==
    calculate_etas(preds, BusFormat, current_time)

CTARailClient_calculate_etas(preds, current_time) ==
    calculate_etas(preds, RailFormat, current_time)

ClientCalculateEtas(mode, preds, current_time) ==
    IF mode = "BUS" THEN CTABusClient_calculate_etas(preds, current_time)
    ELSE CTARailClient_calculate_etas(preds, current_time)

-----------------------------------------------------------------------------
(* Inputs of calculate_etas *)

\* the clock reads noon of day 1, on the second or half a second past it
Noon == 12 * 3600
Clocks == {DateTime(1, Noon, 0), DateTime(1, Noon, 500000)}

Hours == {11, 12}
Minutes == {0, 1, 5}
Seconds == {0, 30}

BusTexts ==
    {<<d, h, m>> : d \in 0..MaxDay, h \in Hours, m \in Minutes}
RailTexts ==
    {<<d, h, m, s>> : d \in 0..MaxDay, h \in Hours, m \in Minutes, s \in Seconds}

\* records that do not parse: no time element, an hour out of range, and a
\* text of the other format
BadTexts(mode) ==
    {<<>>, IF mode = "BUS" THEN <<1, 24, 0>> ELSE <<1, 24, 0, 0>>,
     IF mode = "BUS" THEN <<1, 12, 5, 0>> ELSE <<1, 12, 5>>}

Texts(mode) == (IF mode = "BUS" THEN BusTexts ELSE RailTexts) \cup BadTexts(mode)

SeqsUpTo(S, n) == UNION {[1..k -> S] : k \in 0..n}

Batches(mode) ==
    {NoDoc, Doc(FALSE, <<>>)} \cup {Doc(TRUE, r) : r \in SeqsUpTo(Texts(mode), MaxRecords)}

FormatOf(mode) == IF mode = "BUS" THEN BusFormat ELSE RailFormat

\* the parsable records of a batch, in order
ParsableRecs(preds, mode) ==
    IF preds.kind = "None" \/ ~preds.hasColl THEN <<>>
    ELSE SelectSeq(preds.recs, LAMBDA r : StrptimeOk(r, FormatOf(mode)))

\* t - now in whole seconds (floor), over any number of days
WholeSeconds(t, now) ==
    (t.day - now.day) * SecondsPerDay + (t.sec - now.sec)
        + ((t.us - now.us) \div MicrosPerSecond)

\* t is at or before now
AtOrBefore(t, now) ==
    \/ t.day < now.day
    \/ t.day = now.day /\ t.sec < now.sec
    \/ t.day = now.day /\ t.sec = now.sec /\ t.us <= now.us

-----------------------------------------------------------------------------
(* calculate_etas explored on its own *)

EtaInit ==
    /\ etaMode \in {"BUS", "RAIL"}
    /\ etaNow \in Clocks
    /\ etaInput \in Batches(etaMode)
    /\ etaDone = FALSE
    /\ etaResult = <<>>

CalcBus ==
    /\ ~etaDone
    /\ etaMode = "BUS"
    /\ etaResult' = CTABusClient_calculate_etas(etaInput, etaNow)
    /\ etaDone' = TRUE
    /\ UNCHANGED <<etaMode, etaNow, etaInput, mqttVars, runVars, cfgVars>>

CalcRail ==
    /\ ~etaDone
    /\ etaMode = "RAIL"
    /\ etaResult' = CTARailClient_calculate_etas(etaInput, etaNow)
    /\ etaDone' = TRUE
    /\ UNCHANGED <<etaMode, etaNow, etaInput, mqttVars, runVars, cfgVars>>

-----------------------------------------------------------------------------
(* TransitStop and the stop registry *)

TransitStop(stop_id, route) == [stop_id |-> stop_id, route |-> route, topic |-> None]

get_topicMutNoRoute(stop) == stop.stop_id
get_topic(stop) ==
    IF stop.topic # None THEN stop.topic
    ELSE IF stop.route # None THEN stop.stop_id \o "/" \o stop.route
    ELSE stop.stop_id

bus_stops ==
    << TransitStop("1151", "77"),
       TransitStop("1151", "151"),
       TransitStop("1074", "151"),
       TransitStop("1074", "134"),
       TransitStop("1074", "143"),
       TransitStop("1074", "156") >>

rail_stops ==
    << TransitStop("30231", None),
       TransitStop("30232", None) >>

downtown_routes == <<"134", "143", "156">>

BusTopic(stop) == "CTApredictions/BUS/" \o get_topic(stop)
RailTopic(stop) == "CTApredictions/RAIL/" \o get_topic(stop)
DowntownTopic == "CTApredictions/BUS/dwtnEXP"

\* the stops of a phase of the pass, and the topic of the i-th
StopsOf(ph) == IF ph = "bus" THEN bus_stops ELSE rail_stops
TopicOf(ph, i) ==
    IF ph = "bus" THEN BusTopic(bus_stops[i])
    ELSE IF ph = "rail" THEN RailTopic(rail_stops[i])
    ELSE DowntownTopic

\* the request get_predictions issues for the i-th entry of a phase
FetchOf(ph, i) ==
    IF ph = "bus" THEN <<"BUS", bus_stops[i].stop_id, bus_stops[i].route>>
    ELSE IF ph = "dwtn" THEN <<"BUS", "1074", downtown_routes[i]>>
    ELSE <<"RAIL", rail_stops[i].stop_id, None>>

ModeOf(ph) == IF ph = "rail" THEN "RAIL" ELSE "BUS"

-----------------------------------------------------------------------------
(* Initial state: MQTTManager.__init__ and CTATransitTracker.__init__ done *)

\* the values an environment variable read by CONFIG can have: unset (None
\* where CONFIG has no default), set to the empty string, or set
ConfigValues == {None, "", "set"}

\* CONFIG: the broker host and port and UPDATE_INTERVAL always have a value
Configs ==
    [MQTT_USER : {"", "mqtt"}, MQTT_PASSWORD : ConfigValues,
     CTA_API_KEY_BUS : ConfigValues, CTA_API_KEY_RAIL : ConfigValues]

FullConfig ==
    [MQTT_USER |-> "mqtt", MQTT_PASSWORD |-> "set",
     CTA_API_KEY_BUS |-> "set", CTA_API_KEY_RAIL |-> "set"]

\* Python's truth value of a configuration value
Truthy(value) == value \notin {None, ""}

NoCallback ==
    [kind |-> "none", rc |-> 0, reconnects |-> 0, reconnectFailed |-> FALSE,
     raised |-> FALSE]
NoPublish ==
    [topic |-> None, message |-> 0, flagSeen |-> FALSE, handed |-> FALSE,
     payload |-> None, result |-> "none"]
NoArgs == [topic |-> None, message |-> 0]

MqttInit ==
    /\ connected = FALSE
    /\ session = "idle"
    /\ loopRunning = FALSE
    /\ lastCb = NoCallback

\* the locals of a tracker that has not run a pass yet
RunIdle ==
    /\ phase = "bus"
    /\ idx = 1
    /\ predictions = NoDoc
    /\ etas = <<>>
    /\ downtown_etas = <<>>
    /\ memberEtas = <<>>
    /\ pubArgs = NoArgs
    /\ lastPublish = NoPublish
    /\ fetchLog = <<>>
    /\ pubLog = <<>>
    /\ errLog = <<>>
    /\ disconnectCalled = FALSE
    /\ slept = 0

\* the tracker is constructed and run() is about to connect
RunInit == pc = "start" /\ RunIdle

\* a CONFIG dictionary with every value present, after the construction of
\* CTATransitTracker and its MQTTManager
CfgInit ==
    /\ config = FullConfig
    /\ credentials = TRUE

EtaIdle ==
    /\ etaMode = "BUS"
    /\ etaNow = DateTime(1, Noon, 0)
    /\ etaInput = NoDoc
    /\ etaDone = FALSE
    /\ etaResult = <<>>

InitEta == EtaInit /\ MqttInit /\ RunInit /\ CfgInit
NextEta == CalcBus \/ CalcRail
SpecEta == InitEta /\ [][NextEta]_vars

-----------------------------------------------------------------------------
(* Properties of calculate_etas, checked under SpecEta *)

\* C1: calculate_etas (Bus and Rail) never returns an empty sequence, and for
\* a batch with no valid record (None, no record collection, or no record
\* that parses) it returns exactly [-1].
C1_NeverEmpty ==
    etaDone =>
        /\ etaResult # <<>>
        /\ ParsableRecs(etaInput, etaMode) = <<>> => etaResult = <<-1>>

\* a batch whose records all fail to parse has been computed
C1_Witness ==
    /\ etaDone
    /\ etaInput.kind = "doc" /\ etaInput.hasColl
    /\ Len(etaInput.recs) = MaxRecords
    /\ ParsableRecs(etaInput, etaMode) = <<>>
    /\ etaResult = <<-1>>

\* C2: every parsable record whose arrival time is at or before now yields
\* the ETA 0.
C2_PastClampedToZero ==
    etaDone =>
        LET recs == ParsableRecs(etaInput, etaMode) IN
        \A i \in 1..Len(recs) :
            AtOrBefore(strptime(recs[i], FormatOf(etaMode)), etaNow)
                => etaResult[i] = 0

\* C3: every parsable record whose arrival time t is after now yields the
\* whole seconds of t - now, whatever the size of the difference.
C3_FutureWholeSeconds ==
    etaDone =>
        LET recs == ParsableRecs(etaInput, etaMode) IN
        \A i \in 1..Len(recs) :
            LET t == strptime(recs[i], FormatOf(etaMode)) IN
            ~AtOrBefore(t, etaNow) => etaResult[i] = WholeSeconds(t, etaNow)

\* C19: for a batch that mixes parsable and unparsable records,
\* calculate_etas skips the unparsable ones and returns the ETAs of the
\* parsable ones in their original order, so its first element is the ETA of
\* the first parsable record; an unparsable record never ends the batch.
C19_SkipsUnparsable ==
    etaDone =>
        LET recs == ParsableRecs(etaInput, etaMode) IN
        recs # <<>> =>
            /\ Len(etaResult) = Len(recs)
            /\ \A i \in 1..Len(recs) :
                   etaResult[i] =
                       EtaSeconds(TimeDelta(strptime(recs[i], FormatOf(etaMode)), etaNow))

\* a batch whose first record does not parse and whose second does
C19_Witness ==
    /\ etaDone
    /\ etaInput.kind = "doc" /\ etaInput.hasColl
    /\ Len(etaInput.recs) = 2
    /\ ~StrptimeOk(etaInput.recs[1], FormatOf(etaMode))
    /\ StrptimeOk(etaInput.recs[2], FormatOf(etaMode))
    /\ Len(etaResult) = 1
    /\ etaResult[1] = 300

-----------------------------------------------------------------------------
(* MQTTManager: lifecycle callbacks *)

\* result codes: 0 is success / a clean disconnect
ResultCodes == 0..MaxRc

\* _on_connect(rc): what it assigns to self.connected
OnConnectFlagMutAlwaysTrue(rc) == TRUE
OnConnectFlag(rc) == IF rc = 0 THEN TRUE ELSE FALSE

\* _on_disconnect(rc): what it assigns to self.connected
OnDisconnectFlag(rc) == FALSE

\* _on_disconnect(rc): how many times it calls _reconnect
ReconnectCallsMutAlways(rc) == 1
ReconnectCallsMutRetry(rc) == IF rc # 0 THEN 2 ELSE 0
ReconnectCalls(rc) == IF rc # 0 THEN 1 ELSE 0

\* _reconnect: whether an exception of client.connect leaves it (it is caught
\* and logged)
ReconnectEscapes(connectRaises) == FALSE

\* _on_connect, with the session state the CONNACK leaves behind
on_connect(rc) ==
    /\ connected' = OnConnectFlag(rc)
    /\ session' = IF rc = 0 THEN "up" ELSE "refused"
    /\ lastCb' = [kind |-> "connect", rc |-> rc, reconnects |-> 0,
                  reconnectFailed |-> FALSE, raised |-> FALSE]

\* _on_disconnect followed inline by _reconnect when rc # 0; connectRaises is
\* whether client.connect raises inside _reconnect, where it is caught
on_disconnect(rc, connectRaises) ==
    /\ connected' = OnDisconnectFlag(rc)
    /\ session' = IF ReconnectCalls(rc) > 0 /\ ~connectRaises THEN "connecting" ELSE "idle"
    /\ lastCb' = [kind |-> "disconnect", rc |-> rc, reconnects |-> ReconnectCalls(rc),
                  reconnectFailed |-> (ReconnectCalls(rc) > 0 /\ connectRaises),
                  raised |-> (ReconnectCalls(rc) > 0 /\ ReconnectEscapes(connectRaises))]

\* the network thread delivers the CONNACK of a pending connect
CbConnect ==
    /\ loopRunning
    /\ session = "connecting"
    /\ \E rc \in ResultCodes : on_connect(rc)
    /\ UNCHANGED <<loopRunning, etaVars, cfgVars, runVars>>

\* the network thread reports the loss of the socket; an exception leaving
\* the callback would end the thread
CbDisconnect ==
    /\ loopRunning
    /\ session \in {"connecting", "up", "refused"}
    /\ \E rc \in ResultCodes \ {0}, connectRaises \in BOOLEAN :
           on_disconnect(rc, connectRaises)
    /\ loopRunning' = ~lastCb'.raised
    /\ UNCHANGED <<etaVars, cfgVars, runVars>>

\* the network thread of the client library opens a new socket by itself
TransportRetry ==
    /\ loopRunning
    /\ session = "idle"
    /\ session' = "connecting"
    /\ UNCHANGED <<connected, loopRunning, lastCb, etaVars, cfgVars, runVars>>

-----------------------------------------------------------------------------
(* MQTTManager.connect / disconnect, CTATransitTracker.run *)

\* _validate_config raises ValueError
MissingRequiredMutBusOnly(cfg) == ~Truthy(cfg.CTA_API_KEY_BUS)
MissingRequired(cfg) ==
    \/ ~Truthy(cfg.CTA_API_KEY_BUS)
    \/ ~Truthy(cfg.CTA_API_KEY_RAIL)

\* MQTTManager.__init__ calls username_pw_set
SetsCredentials(cfg) == Truthy(cfg.MQTT_USER) /\ Truthy(cfg.MQTT_PASSWORD)

\* main(): CTATransitTracker(CONFIG) is constructed: the configuration is
\* valid (a missing password is only logged) and the MQTTManager is built
ConstructOk ==
    /\ pc = "init"
    /\ ~MissingRequired(config)
    /\ credentials' = SetsCredentials(config)
    /\ connected' = FALSE
    /\ pc' = "start"
    /\ UNCHANGED <<session, loopRunning, lastCb, etaVars, config, phase, idx,
                   predictions, etas, downtown_etas, memberEtas, pubArgs,
                   lastPublish, fetchLog, pubLog, errLog, disconnectCalled, slept>>

\* main(): _validate_config raises ValueError, which main() logs and
\* re-raises: the process ends before an MQTTManager exists
ConstructFail ==
    /\ pc = "init"
    /\ MissingRequired(config)
    /\ pc' = "config_error"
    /\ UNCHANGED <<mqttVars, etaVars, cfgVars, phase, idx, predictions, etas,
                   downtown_etas, memberEtas, pubArgs, lastPublish, fetchLog,
                   pubLog, errLog, disconnectCalled, slept>>

\* run(): inside mqtt_manager.connect(), client.connect and loop_start have
\* succeeded and time.sleep(1) begins
RunConnectOk ==
    /\ pc = "start"
    /\ session' = "connecting"
    /\ loopRunning' = TRUE
    /\ pc' = "connect_sleep"
    /\ UNCHANGED <<connected, lastCb, etaVars, cfgVars, phase, idx, predictions, etas,
                   downtown_etas, memberEtas, pubArgs, lastPublish, fetchLog,
                   pubLog, errLog, disconnectCalled, slept>>

\* time.sleep(1) is over and connect() returns True, whatever the network
\* thread has delivered meanwhile
ConnectReturn ==
    /\ pc = "connect_sleep"
    /\ pc' = "connected"
    /\ UNCHANGED <<mqttVars, etaVars, cfgVars, phase, idx, predictions, etas,
                   downtown_etas, memberEtas, pubArgs, lastPublish, fetchLog,
                   pubLog, errLog, disconnectCalled, slept>>

\* run(): client.connect raises, connect() returns False, run() returns
RunConnectFail ==
    /\ pc = "start"
    /\ pc' = "exited"
    /\ UNCHANGED <<mqttVars, etaVars, cfgVars, phase, idx, predictions, etas,
                   downtown_etas, memberEtas, pubArgs, lastPublish, fetchLog,
                   pubLog, errLog, disconnectCalled, slept>>

\* CONFIG['UPDATE_INTERVAL'], the default of the environment variable
UPDATE_INTERVAL == 30

\* the argument of time.sleep after a pass that logged the given number of
\* errors: self.config['UPDATE_INTERVAL'], whatever happened in the pass
SleepIntervalMutBackoff(failures) == UPDATE_INTERVAL * (1 + failures)
SleepInterval(failures) == UPDATE_INTERVAL

\* the log entry of 'except Exception' in run(): the pass as a whole raised
PassError == <<"pass", 0>>

\* the top of the while loop: update_predictions() is entered
StartPass ==
    /\ pc \in {"connected", "loop"}
    /\ pc' = "fetch"
    /\ phase' = "bus"
    /\ idx' = 1
    /\ fetchLog' = <<>>
    /\ pubLog' = <<>>
    /\ errLog' = <<>>
    /\ memberEtas' = <<>>
    /\ slept' = 0
    /\ UNCHANGED <<mqttVars, etaVars, cfgVars, predictions, etas, downtown_etas, pubArgs,
                   lastPublish, disconnectCalled>>

\* an exception leaves update_predictions at its first statement, which is
\* outside every try of the pass; run() catches it, logs it and goes on to
\* the sleep
PassAbort ==
    /\ pc = "fetch" /\ phase = "bus" /\ idx = 1
    /\ errLog = <<>>
    /\ pc' = "sleep"
    /\ errLog' = <<PassError>>
    /\ UNCHANGED <<mqttVars, etaVars, cfgVars, phase, idx, predictions, etas,
                   downtown_etas, memberEtas, pubArgs, lastPublish, fetchLog,
                   pubLog, disconnectCalled, slept>>

\* time.sleep(UPDATE_INTERVAL) is called and returns
Sleep ==
    /\ pc = "sleep"
    /\ pc' = "loop"
    /\ slept' = SleepInterval(Len(errLog))
    /\ UNCHANGED <<mqttVars, etaVars, cfgVars, phase, idx, predictions, etas,
                   downtown_etas, memberEtas, pubArgs, lastPublish, fetchLog,
                   pubLog, errLog, disconnectCalled>>

\* KeyboardInterrupt inside update_predictions: caught in run(), break
InterruptInPass ==
    /\ pc \in {"fetch", "publish", "send"}
    /\ pc' = "cleanup"
    /\ UNCHANGED <<mqttVars, etaVars, cfgVars, phase, idx, predictions, etas,
                   downtown_etas, memberEtas, pubArgs, lastPublish, fetchLog,
                   pubLog, errLog, disconnectCalled, slept>>

\* KeyboardInterrupt inside time.sleep: outside the try, it leaves run()
InterruptInSleep ==
    /\ pc = "sleep"
    /\ pc' = "killed"
    /\ UNCHANGED <<mqttVars, etaVars, cfgVars, phase, idx, predictions, etas,
                   downtown_etas, memberEtas, pubArgs, lastPublish, fetchLog,
                   pubLog, errLog, disconnectCalled, slept>>

\* mqtt_manager.disconnect(): loop_stop(), then client.disconnect(), which on
\* an open socket sends DISCONNECT and delivers on_disconnect(0) inline
Cleanup ==
    /\ pc = "cleanup"
    /\ pc' = "stopped"
    /\ disconnectCalled' = TRUE
    /\ loopRunning' = FALSE
    /\ IF session # "idle"
       THEN on_disconnect(0, FALSE)
       ELSE UNCHANGED <<connected, session, lastCb>>
    /\ UNCHANGED <<etaVars, cfgVars, phase, idx, predictions, etas, downtown_etas,
                   memberEtas, pubArgs, lastPublish, fetchLog, pubLog, errLog, slept>>

-----------------------------------------------------------------------------
(* What the prediction APIs return during a pass *)

SysClocks == {DateTime(1, Noon, 0)}

\* one record 4 or 10 minutes ahead, or a record without a time
SysTexts(mode) ==
    IF mode = "BUS" THEN {<<1, 12, 4>>, <<1, 12, 10>>, <<>>}
    ELSE {<<1, 12, 4, 0>>, <<1, 12, 10, 0>>, <<>>}

\* get_predictions returns None (request failed, bad status, unparsable body)
\* or the parsed document, with or without the record collection
FetchResults(mode) ==
    {NoDoc, Doc(FALSE, <<>>)} \cup {Doc(TRUE, <<t>>) : t \in SysTexts(mode)}

RECURSIVE SeqMin(_)
SeqMin(q) ==
    IF Len(q) = 1 THEN q[1]
    ELSE LET m == SeqMin(Tail(q)) IN IF q[1] <= m THEN q[1] ELSE m

-----------------------------------------------------------------------------
(* CTATransitTracker.update_predictions / _update_downtown_express *)

\* where the pass goes after the i-th entry of a phase is finished
AfterStopMutRailFirst(ph, i) ==
    IF ph = "bus" /\ i < Len(bus_stops) THEN [pc |-> "fetch", phase |-> "bus", idx |-> i + 1]
    ELSE IF ph = "bus" THEN [pc |-> "fetch", phase |-> "rail", idx |-> 1]
    ELSE IF ph = "rail" /\ i < Len(rail_stops) THEN [pc |-> "fetch", phase |-> "rail", idx |-> i + 1]
    ELSE IF ph = "rail" THEN [pc |-> "fetch", phase |-> "dwtn", idx |-> 1]
    ELSE [pc |-> "sleep", phase |-> "rail", idx |-> Len(rail_stops)]
AfterStopMutAbort(ph, i) ==
    IF errLog # <<>> THEN [pc |-> "sleep", phase |-> ph, idx |-> i]
    ELSE IF ph = "bus" /\ i < Len(bus_stops) THEN [pc |-> "fetch", phase |-> "bus", idx |-> i + 1]
    ELSE IF ph = "bus" THEN [pc |-> "fetch", phase |-> "dwtn", idx |-> 1]
    ELSE IF ph = "dwtn" THEN [pc |-> "fetch", phase |-> "rail", idx |-> 1]
    ELSE IF i < Len(rail_stops) THEN [pc |-> "fetch", phase |-> "rail", idx |-> i + 1]
    ELSE [pc |-> "sleep", phase |-> "rail", idx |-> i]
AfterStop(ph, i) ==
    IF ph = "bus" /\ i < Len(bus_stops) THEN [pc |-> "fetch", phase |-> "bus", idx |-> i + 1]
    ELSE IF ph = "bus" THEN [pc |-> "fetch", phase |-> "dwtn", idx |-> 1]
    ELSE IF ph = "dwtn" THEN [pc |-> "fetch", phase |-> "rail", idx |-> 1]
    ELSE IF i < Len(rail_stops) THEN [pc |-> "fetch", phase |-> "rail", idx |-> i + 1]
    ELSE [pc |-> "sleep", phase |-> "rail", idx |-> i]

\* the entry is finished: go on with the next one
StopDone ==
    LET n == AfterStop(phase, idx) IN
    /\ pc' = n.pc
    /\ phase' = n.phase
    /\ idx' = n.idx
    /\ downtown_etas' = <<>>

\* if etas: publish(topic, etas[0])
SingleStopPublishesMutSkipSentinel(e) == e # <<>> /\ e[1] # -1
SingleStopPublishes(e) == e # <<>>

\* the requests one call of get_predictions issues, given the document it
\* returns: one requests.get, not repeated when it fails
RequestsIssuedMutRetry(request, doc) ==
    IF doc = NoDoc THEN <<request, request>> ELSE <<request>>
RequestsIssued(request, doc) == <<request>>

\* a bus or rail stop: get_predictions, calculate_etas, and the publish call
Fetch ==
    /\ pc = "fetch"
    /\ phase \in {"bus", "rail"}
    /\ \E doc \in FetchResults(ModeOf(phase)), now \in SysClocks :
        /\ predictions' = doc
        /\ etas' = ClientCalculateEtas(ModeOf(phase), doc, now)
    /\ fetchLog' = fetchLog \o RequestsIssued(FetchOf(phase, idx), predictions')
    /\ IF SingleStopPublishes(etas')
       THEN /\ pc' = "publish"
            /\ pubArgs' = [topic |-> TopicOf(phase, idx), message |-> etas'[1]]
            /\ UNCHANGED <<phase, idx, downtown_etas>>
       ELSE /\ StopDone
            /\ UNCHANGED pubArgs
    /\ memberEtas' = <<>>
    /\ UNCHANGED <<mqttVars, etaVars, cfgVars, lastPublish, pubLog, errLog, disconnectCalled, slept>>

\* a bus or rail stop: an exception is raised in the try block after the
\* fetch; it is caught and logged, and the loop goes on
StopRaise ==
    /\ pc = "fetch"
    /\ phase \in {"bus", "rail"}
    /\ Len(errLog) < MaxErrors
    /\ \E doc \in FetchResults(ModeOf(phase)) : predictions' = doc
    /\ fetchLog' = fetchLog \o RequestsIssued(FetchOf(phase, idx), predictions')
    /\ errLog' = Append(errLog, <<phase, idx>>)
    /\ StopDone
    /\ memberEtas' = <<>>
    /\ UNCHANGED <<mqttVars, etaVars, cfgVars, etas, pubArgs, lastPublish, pubLog,
                   disconnectCalled, slept>>

\* if etas and etas[0] != -1: downtown_etas.append(etas[0])
DowntownKeepsMutAll(e) == e # <<>>
DowntownKeeps(e) == e # <<>> /\ e[1] # -1

\* min_eta = min(downtown_etas)
DowntownReduce(q) == SeqMin(q)

\* a member route is finished with the list q: next route, or the end of
\* _update_downtown_express: publish the minimum if the list is not empty
DowntownMemberDone(q) ==
    IF idx < Len(downtown_routes)
    THEN /\ idx' = idx + 1
         /\ downtown_etas' = q
         /\ UNCHANGED <<pc, phase, pubArgs>>
    ELSE IF q # <<>>
    THEN /\ pc' = "publish"
         /\ pubArgs' = [topic |-> DowntownTopic, message |-> DowntownReduce(q)]
         /\ downtown_etas' = q
         /\ UNCHANGED <<phase, idx>>
    ELSE /\ StopDone
         /\ UNCHANGED pubArgs

DowntownFetch ==
    /\ pc = "fetch"
    /\ phase = "dwtn"
    /\ \E doc \in FetchResults("BUS"), now \in SysClocks :
        /\ predictions' = doc
        /\ etas' = CTABusClient_calculate_etas(doc, now)
    /\ fetchLog' = fetchLog \o RequestsIssued(FetchOf(phase, idx), predictions')
    /\ memberEtas' = Append(memberEtas, [raised |-> FALSE,
                                         eta |-> IF etas' # <<>> THEN etas'[1] ELSE -1])
    /\ DowntownMemberDone(IF DowntownKeeps(etas')
                          THEN Append(downtown_etas, etas'[1]) ELSE downtown_etas)
    /\ UNCHANGED <<mqttVars, etaVars, cfgVars, lastPublish, pubLog, errLog, disconnectCalled, slept>>

DowntownRaise ==
    /\ pc = "fetch"
    /\ phase = "dwtn"
    /\ Len(errLog) < MaxErrors
    /\ \E doc \in FetchResults("BUS") : predictions' = doc
    /\ fetchLog' = fetchLog \o RequestsIssued(FetchOf(phase, idx), predictions')
    /\ errLog' = Append(errLog, <<phase, idx>>)
    /\ memberEtas' = Append(memberEtas, [raised |-> TRUE, eta |-> -1])
    /\ DowntownMemberDone(downtown_etas)
    /\ UNCHANGED <<mqttVars, etaVars, cfgVars, etas, lastPublish, pubLog, disconnectCalled, slept>>

-----------------------------------------------------------------------------
(* MQTTManager.publish *)

\* if not self.connected: return False
PublishProceedsMutAlways(flag) == TRUE
PublishProceeds(flag) == flag

\* what publish gives its caller for each outcome of client.publish: rc 0,
\* another rc, or an exception (caught)
PublishReturn(outcome) ==
    IF outcome = "ok" THEN "True" ELSE "False"

\* what client.publish can do: rc 0 needs an established session
TransportOutcomes == IF session = "up" THEN {"ok", "err", "raise"} ELSE {"err", "raise"}

\* publish has ended with the record r: the caller goes on.  An exception out
\* of publish would reach the per-stop handler, or for the aggregate the
\* handler of run().
PublishEnds(r) ==
    /\ lastPublish' = r
    /\ pubArgs' = NoArgs
    /\ IF r.result = "raised" /\ phase = "dwtn"
       THEN /\ pc' = "sleep"
            /\ downtown_etas' = <<>>
            /\ UNCHANGED <<phase, idx, errLog>>
       ELSE /\ StopDone
            /\ errLog' = IF r.result = "raised" THEN Append(errLog, <<phase, idx>>)
                         ELSE errLog

\* the call of publish and its check of the connected flag
PublishCheck ==
    /\ pc = "publish"
    /\ pubLog' = Append(pubLog, pubArgs.topic)
    /\ IF PublishProceeds(connected)
       THEN /\ pc' = "send"
            /\ UNCHANGED <<phase, idx, downtown_etas, pubArgs, lastPublish, errLog>>
       ELSE PublishEnds([topic |-> pubArgs.topic, message |-> pubArgs.message,
                         flagSeen |-> connected, handed |-> FALSE,
                         payload |-> None, result |-> "False"])
    /\ UNCHANGED <<mqttVars, etaVars, cfgVars, predictions, etas, memberEtas, fetchLog,
                   disconnectCalled, slept>>

\* client.publish(topic, str(message)) and the return
PublishSend ==
    /\ pc = "send"
    /\ \E outcome \in TransportOutcomes :
        PublishEnds([topic |-> pubArgs.topic, message |-> pubArgs.message,
                     flagSeen |-> TRUE, handed |-> TRUE,
                     payload |-> ToString(pubArgs.message),
                     result |-> PublishReturn(outcome)])
    /\ UNCHANGED <<mqttVars, etaVars, cfgVars, predictions, etas, memberEtas, fetchLog,
                   pubLog, disconnectCalled, slept>>

-----------------------------------------------------------------------------
(* The tracker with its network thread *)

Init == EtaIdle /\ MqttInit /\ RunInit /\ CfgInit

Next ==
    \/ RunConnectOk
    \/ ConnectReturn
    \/ RunConnectFail
    \/ StartPass
    \/ PassAbort
    \/ Fetch
    \/ StopRaise
    \/ DowntownFetch
    \/ DowntownRaise
    \/ PublishCheck
    \/ PublishSend
    \/ Sleep
    \/ InterruptInPass
    \/ InterruptInSleep
    \/ Cleanup
    \/ CbConnect
    \/ CbDisconnect
    \/ TransportRetry

Spec == Init /\ [][Next]_vars

\* the launch of the process, from any CONFIG up to the return of connect()
InitStartup ==
    /\ EtaIdle /\ MqttInit
    /\ pc = "init" /\ RunIdle
    /\ config \in Configs
    /\ credentials = FALSE

NextStartup ==
    \/ ConstructOk
    \/ ConstructFail
    \/ RunConnectOk
    \/ ConnectReturn
    \/ RunConnectFail
    \/ CbConnect
    \/ CbDisconnect
    \/ TransportRetry

SpecStartup == InitStartup /\ [][NextStartup]_vars

-----------------------------------------------------------------------------
(* The registry order of a pass, for the properties below *)

Range(q) == {q[i] : i \in 1..Len(q)}

\* the single stops of the registry, as <<phase, index>>
SingleStops ==
    {<<"bus", i>> : i \in 1..Len(bus_stops)} \cup {<<"rail", i>> : i \in 1..Len(rail_stops)}

\* the place of an entry in the order of the pass: bus stops, downtown
\* routes, rail stops
PosOf(ph, i) ==
    IF ph = "bus" THEN i
    ELSE IF ph = "dwtn" THEN Len(bus_stops) + i
    ELSE Len(bus_stops) + Len(downtown_routes) + i

\* every fetch of a full pass, in registry order
AllFetches ==
    [i \in 1..Len(bus_stops) |-> FetchOf("bus", i)]
        \o [i \in 1..Len(downtown_routes) |-> FetchOf("dwtn", i)]
        \o [i \in 1..Len(rail_stops) |-> FetchOf("rail", i)]

\* every topic of a full pass, in registry order
PassTopics ==
    [i \in 1..Len(bus_stops) |-> TopicOf("bus", i)]
        \o <<DowntownTopic>>
        \o [i \in 1..Len(rail_stops) |-> TopicOf("rail", i)]

TopicIndex(t) == CHOOSE k \in 1..Len(PassTopics) : PassTopics[k] = t

\* how many publish calls of the pass went to topic t
PublishCount(t) == Cardinality({k \in 1..Len(pubLog) : pubLog[k] = t})

\* the member ETAs that are predictions: not -1, and not lost to an exception
Available(m) == {m[k].eta : k \in {j \in 1..Len(m) : ~m[j].raised /\ m[j].eta # -1}}

AggregateCallInProgress == pc \in {"publish", "send"} /\ phase = "dwtn"
SingleCallInProgress == pc \in {"publish", "send"} /\ phase \in {"bus", "rail"}

-----------------------------------------------------------------------------
(* Properties of the pass and of the MQTT manager, checked under Spec *)

\* C4: the value published to the aggregate topic is the minimum of the
\* member routes' first ETAs other than -1; when every member's first ETA is
\* -1 or its computation raised, the pass makes no publish call to the
\* aggregate topic; -1 is never published to it.
C4_AggregateMinimum ==
    /\ AggregateCallInProgress =>
          /\ Len(memberEtas) = Len(downtown_routes)
          /\ Available(memberEtas) # {}
          /\ pubArgs.topic = DowntownTopic
          /\ pubArgs.message \in Available(memberEtas)
          /\ \A v \in Available(memberEtas) : pubArgs.message <= v
    /\ (pc = "fetch" /\ phase = "rail" /\ idx = 1) =>
          /\ Len(memberEtas) = Len(downtown_routes)
          /\ PublishCount(DowntownTopic) = IF Available(memberEtas) # {} THEN 1 ELSE 0
    /\ lastPublish.topic = DowntownTopic => lastPublish.message # -1

\* members [-1, 240, 600]: 240 is about to be published
C4_Witness ==
    /\ pc = "publish" /\ phase = "dwtn"
    /\ memberEtas = << [raised |-> FALSE, eta |-> -1], [raised |-> FALSE, eta |-> 240],
                       [raised |-> FALSE, eta |-> 600] >>
    /\ pubArgs = [topic |-> DowntownTopic, message |-> 240]

\* update_predictions has returned without an exception leaving it
PassCompleted == pc = "sleep" /\ PassError \notin Range(errLog)

\* C5: a fetch failure or an exception at one stop never keeps the later
\* entries of the pass from being processed: at every point of a pass every
\* earlier entry has been fetched, every earlier single stop has had its
\* publish call or its logged exception, and a completed pass has fetched
\* every entry of the registry.
C5_LaterStopsProcessed ==
    /\ pc \in {"fetch", "publish", "send", "sleep"} =>
          /\ Len(fetchLog) <= Len(AllFetches)
          /\ fetchLog = SubSeq(AllFetches, 1, Len(fetchLog))
    /\ pc = "fetch" => Len(fetchLog) = PosOf(phase, idx) - 1
    /\ PassCompleted => fetchLog = AllFetches
    /\ pc \in {"fetch", "sleep"} =>
          \A st \in SingleStops :
              PosOf(st[1], st[2]) <= Len(fetchLog) =>
                  PublishCount(TopicOf(st[1], st[2])) + (IF st \in Range(errLog) THEN 1 ELSE 0) = 1

\* the first bus stop raised, the first rail stop's fetch failed, and the
\* pass is at the last rail stop
C5_Witness ==
    /\ pc = "fetch" /\ phase = "rail" /\ idx = Len(rail_stops)
    /\ errLog = << <<"bus", 1>> >>
    /\ predictions = NoDoc
    /\ lastPublish.topic = TopicOf("rail", 1)

\* C6 as stated: a stop whose fetch failed gets no publish call in that pass.
C6_FailedFetchNotPublished ==
    SingleCallInProgress => predictions.kind # "None"

\* C6 as amended: every bus or rail stop whose processing does not raise gets
\* exactly one publish call per pass, whether its fetch succeeded or not, and
\* a stop whose fetch failed has the sentinel -1 published to its topic.
C6_EveryStopPublished ==
    /\ SingleCallInProgress =>
          /\ pubArgs.topic = TopicOf(phase, idx)
          /\ predictions.kind = "None" => pubArgs.message = -1
    /\ PassCompleted =>
          \A st \in SingleStops :
              PublishCount(TopicOf(st[1], st[2])) = IF st \in Range(errLog) THEN 0 ELSE 1

\* the fetch of a rail stop failed and -1 is about to be published
C6_Witness ==
    /\ pc = "publish" /\ phase = "rail"
    /\ predictions = NoDoc
    /\ pubArgs.message = -1

\* C7: the publish calls of a pass are made in registry order: bus stops,
\* then the aggregate topic, then rail stops.
C7_RegistryOrder ==
    /\ Range(pubLog) \subseteq Range(PassTopics)
    /\ \A i, j \in 1..Len(pubLog) :
          i < j => TopicIndex(pubLog[i]) < TopicIndex(pubLog[j])

\* a completed pass in which one stop raised and the aggregate was published
C7_Witness ==
    /\ pc = "sleep"
    /\ Len(errLog) = 1
    /\ Len(pubLog) = Len(PassTopics) - 1
    /\ PublishCount(DowntownTopic) = 1

\* C8: publish called while the connected flag is false returns failure at
\* once, hands nothing to the transport and keeps the value nowhere; a
\* transport error or exception is returned as failure; publish never raises.
C8_PublishState ==
    /\ lastPublish.result \in {"none", "True", "False"}
    /\ lastPublish.handed => lastPublish.flagSeen
    /\ (lastPublish.result # "none" /\ ~lastPublish.flagSeen) =>
          /\ lastPublish.result = "False"
          /\ ~lastPublish.handed
          /\ lastPublish.payload = None
    /\ lastPublish.handed => lastPublish.payload = ToString(lastPublish.message)
    /\ pc = "send" => pubArgs # NoArgs
    /\ pc \in {"fetch", "sleep", "loop"} => pubArgs = NoArgs

\* the step of a publish call that finds the flag false
PublishCallDisconnected == pubLog' # pubLog /\ Len(pubLog') > 0 /\ ~connected

C8_NoOutbox ==
    PublishCallDisconnected =>
        /\ pc' # "send"
        /\ pubArgs' = NoArgs
        /\ lastPublish' = [topic |-> pubArgs.topic, message |-> pubArgs.message,
                           flagSeen |-> FALSE, handed |-> FALSE, payload |-> None,
                           result |-> "False"]
        /\ UNCHANGED mqttVars

C8_PublishDisconnected == [](C8_PublishState) /\ [][C8_NoOutbox]_vars

\* a publish of the first bus stop was dropped while disconnected
C8_Witness ==
    /\ ~connected
    /\ lastPublish.topic = TopicOf("bus", 1)
    /\ lastPublish.result = "False"
    /\ ~lastPublish.flagSeen
    /\ pc = "fetch" /\ phase = "bus" /\ idx = 2

\* C9: every on_disconnect sets the connected flag to false; with a non-zero
\* result code it makes exactly one reconnect attempt inline, with result
\* code 0 none; a failed attempt does not leave the callback as an exception.
C9_DisconnectReconnectsOnce ==
    lastCb.kind = "disconnect" =>
        /\ ~connected
        /\ lastCb.reconnects = IF lastCb.rc # 0 THEN 1 ELSE 0
        /\ ~lastCb.raised

\* an unexpected disconnect whose reconnect attempt failed
C9_Witness ==
    /\ lastCb.kind = "disconnect"
    /\ lastCb.rc # 0
    /\ lastCb.reconnects = 1
    /\ lastCb.reconnectFailed
    /\ loopRunning

\* C10: the connected flag is true only if the most recent lifecycle callback
\* was on_connect with result code 0; it is false initially, after an
\* on_connect with another code and after any on_disconnect.
C10_ConnectedOnlyAfterConnack ==
    connected <=> (lastCb.kind = "connect" /\ lastCb.rc = 0)

\* a publish call is past its flag check on a connection a CONNACK 0 set up
C10_Witness ==
    /\ connected
    /\ lastCb.kind = "connect" /\ lastCb.rc = 0
    /\ pc = "send"

-----------------------------------------------------------------------------
(* Properties of run() and main(): termination and scheduling *)

\* the process has ended after its update loop was entered: run() left the
\* loop and returned, or an interrupt left run() and main()
EndedAfterLoop == pc \in {"stopped", "killed"}

\* C11: once the update loop has been entered, every termination of the
\* process by an interrupt (during a fetch, a publish or the sleep) has
\* performed mqtt_manager.disconnect() before the process ends.
C11_InterruptDisconnects == EndedAfterLoop => disconnectCalled

\* the positions of run() inside update_predictions
InPass == {"fetch", "publish", "send"}

\* C12: passes and sleeps alternate. A pass that ends, normally or with an
\* exception other than an interrupt, goes to the sleep; the sleep is one call
\* of time.sleep with the configured interval, however many errors the pass
\* logged, and it is followed by the next pass; a pass starts only when no
\* pass is in progress.
C12_PassSleepAlternate ==
    [][ /\ (pc \in InPass /\ pc' \notin InPass) => pc' \in {"sleep", "cleanup"}
        /\ (pc = "sleep" /\ pc' # "sleep") =>
              \/ pc' = "killed"
              \/ pc' = "loop" /\ slept' = UPDATE_INTERVAL
        /\ (pc = "loop" /\ pc' # "loop") =>
              pc' = "fetch" /\ slept = UPDATE_INTERVAL /\ fetchLog' = <<>>
        /\ (pc' = "fetch" /\ pc \notin InPass) => pc \in {"connected", "loop"}
      ]_vars

\* a pass ended with an exception that run() caught, and the sleep that
\* followed it has returned
C12_Witness ==
    /\ pc = "loop"
    /\ errLog = <<PassError>>
    /\ slept = UPDATE_INTERVAL

\* the exit status of the process that ended at the given position: 0 when
\* run() returned and main() after it, 1 when an exception left main()
ExitStatus(at) ==
    CASE at \in {"exited", "stopped"} -> 0
      [] at \in {"killed", "config_error"} -> 1

\* C13: when the initial broker connect fails, the process never enters the
\* update loop (no fetch, no publish) and ends with a non-zero exit status.
C13_ConnectFailureExit ==
    pc = "exited" =>
        /\ fetchLog = <<>> /\ pubLog = <<>> /\ lastPublish = NoPublish
        /\ ExitStatus(pc) # 0

-----------------------------------------------------------------------------
(* Properties of the launch, checked under SpecStartup *)

\* the environment gave no usable value
Unset(value) == value \in {None, ""}

\* nothing has touched the broker or the prediction APIs
NothingAttempted ==
    /\ session = "idle" /\ ~loopRunning /\ lastCb = NoCallback
    /\ ~credentials
    /\ fetchLog = <<>> /\ pubLog = <<>> /\ lastPublish = NoPublish

-----------------------------------------------------------------------------
(* Further properties of the pass and of the MQTT manager, checked under Spec *)

\* the topic the topic scheme gives a single stop: the prefix, the mode, the
\* stop id, and the route when the stop has one
SchemeTopic(mode, stop_id, route) ==
    "CTApredictions/" \o mode \o "/" \o stop_id
        \o (IF route # None THEN "/" \o route ELSE "")

\* C15: every publish call for a single stop goes to
\* CTApredictions/{MODE}/{stop_id}/{route} when the stop has a route and to
\* CTApredictions/{MODE}/{stop_id} otherwise; the aggregate publish call goes
\* to the fixed topic CTApredictions/BUS/dwtnEXP.
C15_TopicScheme ==
    /\ SingleCallInProgress =>
          LET stop == StopsOf(phase)[idx] IN
          /\ pubArgs.topic = SchemeTopic(ModeOf(phase), stop.stop_id, stop.route)
          /\ pc = "send" => pubLog[Len(pubLog)] = pubArgs.topic
    /\ AggregateCallInProgress => pubArgs.topic = "CTApredictions/BUS/dwtnEXP"
    /\ Range(pubLog) \subseteq
          {"CTApredictions/BUS/1151/77", "CTApredictions/BUS/1151/151",
           "CTApredictions/BUS/1074/151", "CTApredictions/BUS/1074/134",
           "CTApredictions/BUS/1074/143", "CTApredictions/BUS/1074/156",
           "CTApredictions/BUS/dwtnEXP",
           "CTApredictions/RAIL/30231", "CTApredictions/RAIL/30232"}

\* a pass has published to a bus stop with a route, to the aggregate and to a
\* rail stop, and a call for the last rail stop is in progress
C15_Witness ==
    /\ pc = "send" /\ phase = "rail" /\ idx = Len(rail_stops)
    /\ pubArgs.topic = "CTApredictions/RAIL/30232"
    /\ {"CTApredictions/BUS/1074/156", "CTApredictions/BUS/dwtnEXP",
        "CTApredictions/RAIL/30231"} \subseteq Range(pubLog)

\* the step of a publish call that hands the message to client.publish
HandsToTransport == pc = "send" /\ pc' \notin {"send", "cleanup"}

\* C16: the flag check and the transport publish of a publish call behave as
\* one atomic step: in no interleaving with on_disconnect is a message handed
\* to the transport after the connected flag has been set to false.
C16_CheckAndSendAtomic == [][HandsToTransport => connected]_vars

\* a step of the main thread between the return of connect() and the cleanup:
\* the loop head, a fetch, a publish call, the sleep
MainLoopStep ==
    /\ pc \in InPass \cup {"connected", "loop", "sleep"}
    /\ runVars' # runVars

C18_OneFetchPerEntry ==
    /\ pc \in InPass \cup {"sleep"} =>
          \A k \in 1..Len(fetchLog) :
              k <= Len(AllFetches) /\ fetchLog[k] = AllFetches[k]
    /\ pc \in {"publish", "send"} =>
          Len(fetchLog) = IF phase = "dwtn"
                          THEN Len(bus_stops) + Len(downtown_routes)
                          ELSE PosOf(phase, idx)
    /\ PassCompleted =>
          Len(fetchLog) = Len(bus_stops) + Len(downtown_routes) + Len(rail_stops)

\* a pass has ended whose last fetch failed, with one fetch per entry
C18_Witness ==
    /\ PassCompleted
    /\ predictions = NoDoc
    /\ Len(fetchLog) = Len(bus_stops) + Len(downtown_routes) + Len(rail_stops)
    /\ errLog = <<>>

\* C20: when connect() reports success the broker session is established:
\* the connected flag is true, on_connect with result code 0 having been
\* delivered, before run() starts its first pass.
C20_ConnectedWhenConnectReturns ==
    pc = "connected" =>
        /\ connected
        /\ lastCb.kind = "connect" /\ lastCb.rc = 0

====
